---- MODULE Spec2Model ----
(***************************************************************************)
(* Model of src/app.py (MBTA Nearby): the /api/nearby request pipeline     *)
(* (api_nearby) with its helpers walk_eta_ors, walk_eta_fallback,          *)
(* fetch_nearby_stops, fetch_routes_for_stop and fetch_predictions.        *)
(*                                                                         *)
(* Units.  Python floats are modelled in fixed point:                      *)
(*   distances in decimetres (dm), durations and instants in deciseconds   *)
(*   (ds), minute fields in tenths of a minute.  round() is Python's       *)
(*   round-half-to-even.                                                   *)
(* Optional values.  A value that may be None is a tuple: <<>> is None,    *)
(*   <<x>> is x.  A key of a prediction dict is a record [k, v] with       *)
(*   k = "absent" (no such key), "null" (None) or "val".                   *)
(* Aliasing.  preds_by_stop is the heap of prediction lists built by       *)
(*   fetch_predictions; a stop's "predictions" entry is a reference into   *)
(*   it (the stop id), as preds_by_stop.get(...) returns the list object   *)
(*   itself and step 5 mutates the dicts in that list in place.            *)
(***************************************************************************)
EXTENDS Integers, Sequences, FiniteSets, TLC

VARIABLES
    ORS_API_KEY,    \* module configuration: is a directions credential set
    args,           \* request.args: lat, lon, radius as sent
    pc,             \* position of api_nearby
    lat, lon,       \* parsed origin (grid steps of latitude / longitude)
    radius,         \* parsed radius
    now,            \* capture instant (ds)
    stops,          \* the stop list of api_nearby, enriched in place
    i,              \* loop index of the per-stop loops
    preds_by_stop,  \* stop id -> list of prediction dicts (shared objects)
    http_status,    \* status of the response, 0 while the request runs
    body,           \* JSON body of the response
    calls,          \* upstream requests issued so far, in order
    search_reply,   \* the provider's answer to the stop-search request
    pred_reply,     \* the provider's answer to the predictions request
    ors_last,       \* the latest walk_eta_ors call: stop index and what it met
    fp_in,          \* fetch_predictions called on its own: arguments
    fp_out          \* fetch_predictions called on its own: returned mapping

vars == <<ORS_API_KEY, args, pc, lat, lon, radius, now, stops, i,
          preds_by_stop, http_status, body, calls, search_reply, pred_reply,
          ors_last, fp_in, fp_out>>

main_vars == <<ORS_API_KEY, args, pc, lat, lon, radius, now, stops, i,
               preds_by_stop, http_status, body, calls, search_reply,
               pred_reply, ors_last>>

-----------------------------------------------------------------------------
(* Bounds of the model *)

MaxStops == 2        \* longest stop list the stop search returns
MaxPreds == 1        \* longest predictions payload inside a request
MaxFpIds == 2        \* fetch_predictions alone: longest stop_ids argument
MaxFpLimit == 2      \* fetch_predictions alone: largest limit_per_stop
MaxFpData == 3       \* fetch_predictions alone: longest provider payload

(* Program constants *)

MAX_PREDICTIONS_PER_STOP == 8
WALKING_SPEED_DMPS == 14          \* 1.4 m/s, in dm/s
DEFAULT_RADIUS == 1               \* 0.01 degrees, in hundredths of a degree

-----------------------------------------------------------------------------
(* Values *)

NoneV == <<>>
Some(x) == <<x>>

Absent == [k |-> "absent", v |-> 0]
Null == [k |-> "null", v |-> 0]
Val(x) == [k |-> "val", v |-> x]
HasValue(f) == f.k = "val"

SeqsUpTo(S, n) == UNION {[1..m -> S] : m \in 0..n}

Min(a, b) == IF a < b THEN a ELSE b

\* Python round(n / d) for d > 0: nearest integer, ties to the even one.
RoundDiv(n, d) ==
    LET q == n \div d
        r == n % d
    IN  IF 2 * r < d THEN q
        ELSE IF 2 * r > d THEN q + 1
        ELSE IF q % 2 = 0 THEN q ELSE q + 1

-----------------------------------------------------------------------------
(* Helpers (src/app.py 49-78) *)

\* Decimetres of great-circle distance per grid step of latitude: for two
\* points on one meridian the haversine formula reduces to R * |dphi|.
StepDm == 76

Abs(x) == IF x < 0 THEN -x ELSE x

\* haversine_m: math.radians(None) raises TypeError.  The model keeps all
\* points on the origin's meridian, where the distance is R * |lat2 - lat1|.
haversine_m(lat1, lon1, lat2, lon2) ==
    IF lat2 = NoneV \/ lon2 = NoneV
    THEN [raised |-> TRUE, dm |-> 0]
    ELSE [raised |-> FALSE, dm |-> StepDm * Abs(lat2[1] - lat1)]

\* int() in place of round()
walk_eta_fallback_trunc(distance_dm) == distance_dm \div WALKING_SPEED_DMPS

\* walk_eta_fallback: round(distance_m / WALKING_SPEED_MPS), in seconds
walk_eta_fallback(distance_dm) == RoundDiv(distance_dm, WALKING_SPEED_DMPS)

\* Answers of the directions provider to one request.  status 0: requests.get
\* raised (unreachable, timeout).  shape "bad": the 200 body has no
\* features[0].properties.summary.duration, or it is not a number.
OrsReplies ==
    { [status |-> 0,   shape |-> "none", duration_ds |-> 0],
      [status |-> 500, shape |-> "none", duration_ds |-> 0],
      [status |-> 200, shape |-> "bad",  duration_ds |-> 0],
      [status |-> 200, shape |-> "ok",   duration_ds |-> 25] }

\* What walk_eta_ors met, for a reply (recorded in ors_last)
OrsOutcome(key, reply) ==
    IF ~key THEN "nokey"
    ELSE IF reply.status = 0 THEN "error"
    ELSE IF reply.status # 200 THEN "non200"
    ELSE IF reply.shape # "ok" THEN "malformed"
    ELSE "ok"

\* walk_eta_ors: None without a key, on an exception, on a non-200 status
\* and on a malformed 200 (requests.get, resp.json() and the subscripts are
\* all inside the try); round(duration) on a well-formed 200.  raised: an
\* exception leaves the function -- never, as "except Exception" covers it.
walk_eta_ors(key, reply) ==
    IF ~key THEN [raised |-> FALSE, eta |-> NoneV]
    ELSE IF reply.status = 200 /\ reply.shape = "ok"
         THEN [raised |-> FALSE, eta |-> Some(RoundDiv(reply.duration_ds, 10))]
         ELSE [raised |-> FALSE, eta |-> NoneV]

-----------------------------------------------------------------------------
(* Upstream requests, as logged in calls *)

Call(api, idx, ids) == [api |-> api, idx |-> idx, ids |-> ids]

-----------------------------------------------------------------------------
(* Stop search (src/app.py 89-112, 258-274) *)

StopIdSet == {"A", "B"}

\* A stop as fetch_nearby_stops builds it from one element of data[]
RawStop(id, la, lo) ==
    [stop_id |-> id, lat |-> la, lon |-> lo,
     distance_m |-> NoneV, walk_seconds |-> NoneV, walk_method |-> "",
     walk_minutes |-> NoneV, routes |-> <<>>, stop_types |-> <<>>,
     predictions |-> "", has_predictions |-> NoneV]

\* Stops the provider may return: latitude given or null (attributes.latitude
\* is read with .get), ids not necessarily distinct.
StopRecords ==
    { RawStop("A", Some(1), Some(0)),
      RawStop("B", Some(2), Some(0)),
      RawStop("B", NoneV,   Some(0)) }

\* Answers of the transit provider to the stop search.  status 0: requests.get
\* raised.  shape "bad": the body is not JSON or an element has no "id".
SearchReplies ==
    { [status |-> 0, shape |-> "none", data |-> <<>>] }
    \cup { [status |-> s, shape |-> "none", data |-> <<>>] : s \in {429, 404, 503} }
    \cup { [status |-> 200, shape |-> "bad", data |-> <<>>] }
    \cup { [status |-> 200, shape |-> "ok", data |-> d] : d \in SeqsUpTo(StopRecords, MaxStops) }

NoReply == [status |-> -1, shape |-> "none", data |-> <<>>]

\* requests.Response.__bool__ is Response.ok: False for a 4xx/5xx status
ResponseTruthy(status) == status < 400

\* line 262: sc = e.response.status_code if e.response else 500
HttpErrorCode(status) == IF ResponseTruthy(status) THEN status ELSE 500

\* "if not stops" never taken
NoStops_never(s) == FALSE

\* line 270: if not stops
NoStops(s) == s = <<>>

StopIds(s) == [j \in 1..Len(s) |-> s[j].stop_id]

-----------------------------------------------------------------------------
(* Responses *)

NoBody == [error |-> "", message |-> "", has_stops |-> FALSE, stops |-> <<>>,
           has_origin |-> FALSE]

ErrorBody(e) == [NoBody EXCEPT !.error = e]

\* A stop as serialised: its predictions reference is followed
ResponseStop(s, heap) ==
    [s EXCEPT !.predictions = IF s.predictions \in DOMAIN heap
                               THEN heap[s.predictions] ELSE <<>>]

ResponseStops(s, heap) == [j \in 1..Len(s) |-> ResponseStop(s[j], heap)]

\* An exception no handler of api_nearby catches: the server answers 500
Unhandled(e) ==
    /\ pc' = "Done"
    /\ http_status' = 500
    /\ body' = ErrorBody(e)

Respond(code, b) ==
    /\ pc' = "Done"
    /\ http_status' = code
    /\ body' = b

-----------------------------------------------------------------------------
(* Routes of a stop (src/app.py 115-140, 289-294) *)

\* A route "type" attribute: an integer code, a string, or null
IntType(n) == [k |-> "int", v |-> n]
StrType == [k |-> "str", v |-> 0]
NullType == [k |-> "null", v |-> 0]

Route(id, t) == [route_id |-> id, type |-> t]

\* Answers of the transit provider to one routes request.  status 0:
\* requests.get raised; shape "bad": not JSON, or an element without "id".
RoutesReplies ==
    { [status |-> 0,   shape |-> "none", data |-> <<>>],
      [status |-> 500, shape |-> "none", data |-> <<>>],
      [status |-> 200, shape |-> "bad",  data |-> <<>>],
      [status |-> 200, shape |-> "ok",
       data |-> <<Route("39", IntType(3)), Route("Red", IntType(1)),
                  Route("Shuttle", NullType)>>],
      [status |-> 200, shape |-> "ok",
       data |-> <<Route("Red", IntType(1)), Route("X", StrType)>>] }

\* fetch_routes_for_stop: every exception is caught and gives []
fetch_routes_for_stop(reply) ==
    IF reply.status = 200 /\ reply.shape = "ok" THEN reply.data ELSE <<>>

\* set(r.get("type") for r in routes if r.get("type") is not None)
TypesSeen(routes) ==
    {routes[j].type : j \in {n \in 1..Len(routes) : routes[n].type.k # "null"}}

\* sorted() compares the elements: int with str raises TypeError
SortRaises(types) == \E a, b \in types : a.k # b.k

RECURSIVE SortedInts(_)
SortedInts(S) ==
    IF S = {} THEN <<>>
    ELSE LET m == CHOOSE x \in S : \A y \in S : x <= y
         IN  <<m>> \o SortedInts(S \ {m})

\* sorted(types) for types of one kind
Sorted(types) == SortedInts({t.v : t \in types})

-----------------------------------------------------------------------------
(* Predictions (src/app.py 143-216) *)

\* An ISO-8601 timestamp attribute: null, not parseable ("bad"), parseable
\* without UTC offset ("naive"), or local time with UTC offset ("aware").
NullTime == [k |-> "null", local |-> 0, off |-> 0]
BadTime == [k |-> "bad", local |-> 0, off |-> 0]
NaiveTime(t) == [k |-> "naive", local |-> t, off |-> 0]
AwareTime(t, o) == [k |-> "aware", local |-> t, off |-> o]

\* One element of the provider's data[]: the stop and route relationship ids
\* ("" when the relationship is missing or null) and the two timestamps
RawPrediction(sid, rid, dep, arr) ==
    [stop |-> sid, route |-> rid, departure_time |-> dep, arrival_time |-> arr]

\* The dict fetch_predictions builds (lines 196-211); the derived keys of
\* step 5 do not exist yet
Pred(p) ==
    [route_id |-> p.route,
     arrival_time |-> p.arrival_time,
     departure_time |-> p.departure_time,
     departs_in_seconds |-> Absent, departs_in_minutes |-> Absent,
     leave_in_seconds |-> Absent, leave_in_minutes |-> Absent,
     catchable |-> Absent]

\* "<=" in place of "<"
CapOpen_le(lst, limit) == Len(lst) <= limit

\* line 213: len(by_stop[sid]) < limit_per_stop
CapOpen(lst, limit) == Len(lst) < limit

\* lines 179-214: one pass over data[], appending to the owning stop's list
RECURSIVE WalkData(_, _, _, _)
WalkData(data, k, by_stop, limit) ==
    IF k > Len(data) THEN by_stop
    ELSE LET sid == data[k].stop
             nxt == IF sid \in DOMAIN by_stop /\ CapOpen(by_stop[sid], limit)
                    THEN [by_stop EXCEPT ![sid] = Append(@, Pred(data[k]))]
                    ELSE by_stop
         IN  WalkData(data, k + 1, nxt, limit)

\* line 179 and line 301: {sid: [] for sid in stop_ids}
EmptyByStop(stop_ids) ==
    [sid \in {stop_ids[j] : j \in 1..Len(stop_ids)} |-> <<>>]

\* Does fetch_predictions raise on this reply: requests.get raised
\* (status 0), raise_for_status (4xx/5xx), or the payload is malformed
PredictionsRaise(reply) ==
    reply.status = 0 \/ reply.status >= 400 \/ reply.shape # "ok"

\* fetch_predictions, given the provider's reply to its single request
fetch_predictions(stop_ids, limit, reply) ==
    IF PredictionsRaise(reply)
    THEN [raised |-> TRUE, by_stop |-> <<>>]
    ELSE [raised |-> FALSE,
          by_stop |-> WalkData(reply.data, 1, EmptyByStop(stop_ids), limit)]

\* one request per stop id
PredictionRequests_split(stop_ids) ==
    [j \in 1..Len(stop_ids) |-> Call("predictions", 0, <<stop_ids[j]>>)]

\* lines 145-151: one request, filter[stop] = ",".join(stop_ids)
PredictionRequests(stop_ids) == <<Call("predictions", 0, stop_ids)>>

-----------------------------------------------------------------------------
(* Leave-by computation (src/app.py 303-322) *)

\* a Python string or None in a boolean context
Truthy(ts) == ts.k # "null"

\* datetime.fromisoformat(dep_str) raises ValueError
ParseRaises(ts) == ts.k = "bad"

\* (dep_dt - now) raises TypeError: naive minus aware
SubtractRaises(ts) == ts.k = "naive"

\* the instant (ds, UTC) a timestamp with offset denotes
Instant(ts) == ts.local - ts.off

\* has_predictions true for every list
has_predictions_always(preds) == Len(preds) >= 0

\* line 322
has_predictions(preds) == Len(preds) > 0

\* lines 318-321 with catchable = False
DeriveFailed_false(p) ==
    [p EXCEPT !.departs_in_seconds = Null,
              !.leave_in_seconds = Null,
              !.catchable = Val(0)]

\* lines 318-321: the except branch
DeriveFailed(p) ==
    [p EXCEPT !.departs_in_seconds = Null,
              !.leave_in_seconds = Null,
              !.catchable = Null]

\* lines 311-317: the five derived keys; catchable 1 = True, 0 = False
DeriveOk(p, t, w, n) ==
    LET secs_until == t - n              \* ds
        leave_in == secs_until - 10 * w  \* ds
    IN  [p EXCEPT !.departs_in_seconds = Val(RoundDiv(secs_until, 10)),
                  !.departs_in_minutes = Val(RoundDiv(secs_until, 60)),
                  !.leave_in_seconds = Val(RoundDiv(leave_in, 10)),
                  !.leave_in_minutes = Val(RoundDiv(leave_in, 60)),
                  !.catchable = Val(IF leave_in > 0 THEN 1 ELSE 0)]

\* line 307: p.get("departure_time") or p.get("arrival_time")
DepStr(p) == IF Truthy(p.departure_time) THEN p.departure_time ELSE p.arrival_time

\* lines 306-321, for one prediction dict of a stop with walk_seconds w
DerivePrediction(p, w, n) ==
    LET dep_str == DepStr(p)
    IN  IF ~Truthy(dep_str) THEN p
        ELSE IF ParseRaises(dep_str) \/ SubtractRaises(dep_str) THEN DeriveFailed(p)
        ELSE DeriveOk(p, Instant(dep_str), w, n)

\* lines 304-322 over the stops k..Len(s): the dicts are updated in the heap,
\* so a list two stops share is rewritten once per stop
RECURSIVE DeriveHeap(_, _, _, _)
DeriveHeap(s, k, heap, n) ==
    IF k > Len(s) THEN heap
    ELSE LET sid == s[k].stop_id
             lst == heap[sid]
             upd == [j \in 1..Len(lst) |->
                        DerivePrediction(lst[j], s[k].walk_seconds[1], n)]
         IN  DeriveHeap(s, k + 1, [heap EXCEPT ![sid] = upd], n)

\* lines 305 and 322: each stop gets its list (by reference) and the flag
DeriveStops(s, heap) ==
    [k \in 1..Len(s) |->
        [s[k] EXCEPT !.predictions = s[k].stop_id,
                     !.has_predictions = Some(has_predictions(heap[s[k].stop_id]))]]

-----------------------------------------------------------------------------
(* The request (src/app.py 247-324) *)

\* A query parameter: not sent, sent with text float() rejects, or a number
ArgMissing == [k |-> "missing", v |-> 0]
ArgText == [k |-> "text", v |-> 0]
ArgNum(x) == [k |-> "num", v |-> x]

CoordArgs == {ArgMissing, ArgText, ArgNum(0)}
RadiusArgs == {ArgMissing, ArgText, ArgNum(2)}

\* datetime.now(timezone.utc), ds
NowSet == {1000}

\* Timestamps the provider sends, around NowSet: 3.4 s ahead with offset
\* -04:00, 16.5 s ahead in UTC
T1 == AwareTime(1034 - 144000, -144000)
T2 == AwareTime(1165, 0)

\* (departure_time, arrival_time) of the predictions inside a request
TimePairs ==
    { <<NullTime, NullTime>>, <<T1, NullTime>>, <<NullTime, T2>>,
      <<BadTime, T2>>, <<NaiveTime(1034), NullTime>> }

\* Predictions the provider sends: every time pair at stop A, one at stop B
PredRecords ==
    { RawPrediction("A", "Red", tp[1], tp[2]) : tp \in TimePairs }
    \cup { RawPrediction("B", "39", T1, NullTime) }

\* Answers of the transit provider to the predictions request
PredReplies ==
    { [status |-> 0,   shape |-> "none", data |-> <<>>],
      [status |-> 500, shape |-> "none", data |-> <<>>],
      [status |-> 200, shape |-> "bad",  data |-> <<>>] }
    \cup { [status |-> 200, shape |-> "ok", data |-> d] :
             d \in SeqsUpTo(PredRecords, MaxPreds) }

Idle == [stop_ids |-> <<>>, limit |-> 0, data |-> <<>>, called |-> FALSE]

Init ==
    /\ ORS_API_KEY \in BOOLEAN
    /\ args \in [lat : CoordArgs, lon : CoordArgs, radius : RadiusArgs]
    /\ pc = "Validating"
    /\ lat = 0 /\ lon = 0 /\ radius = 0 /\ now = 0
    /\ stops = <<>>
    /\ i = 0
    /\ preds_by_stop = <<>>
    /\ http_status = 0
    /\ body = NoBody
    /\ calls = <<>>
    /\ search_reply = NoReply
    /\ pred_reply = NoReply
    /\ ors_last = [idx |-> 0, outcome |-> "unset"]
    /\ fp_in = Idle
    /\ fp_out = [raised |-> FALSE, by_stop |-> <<>>]

\* lines 249-256
Validate ==
    /\ pc = "Validating"
    /\ IF args.lat.k # "num" \/ args.lon.k # "num"
       THEN /\ Respond(400, ErrorBody("lat and lon query params required"))
            /\ UNCHANGED <<lat, lon, radius, now>>
       ELSE IF args.radius.k = "text"
       THEN \* float() of the radius is outside the try: ValueError
            /\ Unhandled("ValueError: radius")
            /\ lat' = args.lat.v /\ lon' = args.lon.v
            /\ UNCHANGED <<radius, now>>
       ELSE /\ lat' = args.lat.v /\ lon' = args.lon.v
            /\ radius' = IF args.radius.k = "missing" THEN DEFAULT_RADIUS
                         ELSE args.radius.v
            /\ now' \in NowSet
            /\ pc' = "FetchingStops"
            /\ UNCHANGED <<http_status, body>>
    /\ UNCHANGED <<ORS_API_KEY, args, stops, i, preds_by_stop, calls,
                   search_reply, pred_reply, ors_last, fp_in, fp_out>>

\* lines 258-274: step 1, the stop search and its three early exits
FetchStops ==
    /\ pc = "FetchingStops"
    /\ \E reply \in SearchReplies :
        /\ search_reply' = reply
        /\ calls' = Append(calls, Call("stops", 0, <<>>))
        /\ IF reply.status >= 400
           THEN \* raise_for_status: requests.HTTPError
                LET sc == HttpErrorCode(reply.status)
                IN  /\ IF sc = 429
                       THEN Respond(429, ErrorBody("MBTA rate limit hit. Try again shortly."))
                       ELSE Respond(502, ErrorBody("MBTA stops API error"))
                    /\ UNCHANGED <<stops, i>>
           ELSE IF reply.status = 0 \/ reply.shape # "ok"
           THEN /\ Respond(502, ErrorBody("Failed to fetch nearby stops"))
                /\ UNCHANGED <<stops, i>>
           ELSE IF NoStops(reply.data)
           THEN /\ Respond(200, [NoBody EXCEPT
                        !.has_stops = TRUE,
                        !.message = "No stops found nearby. Try a larger radius."])
                /\ UNCHANGED <<stops, i>>
           ELSE /\ stops' = reply.data
                /\ i' = 1
                /\ pc' = IF reply.data = <<>> THEN "FetchingPredictions"
                         ELSE "WalkETAs"
                /\ UNCHANGED <<http_status, body>>
    /\ UNCHANGED <<ORS_API_KEY, args, lat, lon, radius, now, preds_by_stop,
                   pred_reply, ors_last, fp_in, fp_out>>

\* lines 277-287: step 2 for the stop at index i
WalkETA ==
    /\ pc = "WalkETAs"
    /\ i <= Len(stops)
    /\ LET s == stops[i]
           h == haversine_m(lat, lon, s.lat, s.lon)
       IN  IF h.raised
           THEN \* math.radians(None): TypeError, no handler
                /\ Unhandled("TypeError: haversine_m")
                /\ UNCHANGED <<stops, i, calls, ors_last>>
           ELSE \E reply \in OrsReplies :
                LET r == walk_eta_ors(ORS_API_KEY, reply)
                    ors_eta == r.eta
                    secs == IF ors_eta # NoneV THEN ors_eta[1]
                            ELSE walk_eta_fallback(h.dm)
                IN  /\ calls' = IF ORS_API_KEY
                                THEN Append(calls, Call("directions", i, <<s.stop_id>>))
                                ELSE calls
                    /\ ors_last' = [idx |-> i, outcome |-> OrsOutcome(ORS_API_KEY, reply)]
                    /\ IF r.raised
                       THEN /\ Unhandled("Exception: walk_eta_ors")
                            /\ UNCHANGED <<stops, i>>
                       ELSE /\ stops' = [stops EXCEPT ![i] =
                                  [s EXCEPT !.distance_m = Some(RoundDiv(h.dm, 10)),
                                            !.walk_seconds = Some(secs),
                                            !.walk_method = IF ors_eta # NoneV
                                                            THEN "openrouteservice"
                                                            ELSE "estimate",
                                            !.walk_minutes = Some(RoundDiv(secs * 10, 60))]]
                            /\ i' = IF i = Len(stops) THEN 1 ELSE i + 1
                            /\ pc' = IF i = Len(stops) THEN "Routes" ELSE "WalkETAs"
                            /\ UNCHANGED <<http_status, body>>
    /\ UNCHANGED <<ORS_API_KEY, args, lat, lon, radius, now, preds_by_stop,
                   search_reply, pred_reply, fp_in, fp_out>>

\* lines 290-294: step 3 for the stop at index i
RoutesForStop ==
    /\ pc = "Routes"
    /\ i <= Len(stops)
    /\ \E reply \in RoutesReplies :
        LET routes == fetch_routes_for_stop(reply)
            types == TypesSeen(routes)
        IN  /\ calls' = Append(calls, Call("routes", i, <<stops[i].stop_id>>))
            /\ IF SortRaises(types)
               THEN /\ Unhandled("TypeError: sorted")
                    /\ UNCHANGED <<stops, i>>
               ELSE /\ stops' = [stops EXCEPT ![i] =
                          [@ EXCEPT !.routes = routes,
                                    !.stop_types = Sorted(types)]]
                    /\ i' = IF i = Len(stops) THEN 1 ELSE i + 1
                    /\ pc' = IF i = Len(stops) THEN "FetchingPredictions" ELSE "Routes"
                    /\ UNCHANGED <<http_status, body>>
    /\ UNCHANGED <<ORS_API_KEY, args, lat, lon, radius, now, preds_by_stop,
                   search_reply, pred_reply, ors_last, fp_in, fp_out>>

\* lines 297-301: step 4, the batched predictions call and its fallback
FetchPredictions ==
    /\ pc = "FetchingPredictions"
    /\ \E reply \in PredReplies :
        LET stop_ids == StopIds(stops)
            r == fetch_predictions(stop_ids, MAX_PREDICTIONS_PER_STOP, reply)
        IN  /\ pred_reply' = [reply EXCEPT !.data = <<>>]
            /\ calls' = calls \o PredictionRequests(stop_ids)
            /\ preds_by_stop' = IF r.raised THEN EmptyByStop(stop_ids) ELSE r.by_stop
    /\ pc' = "DerivingTimes"
    /\ UNCHANGED <<ORS_API_KEY, args, lat, lon, radius, now, stops, i,
                   http_status, body, search_reply, ors_last, fp_in, fp_out>>

\* lines 304-324: steps 5-7, leave-by fields, has_predictions, the response
DeriveTimes ==
    /\ pc = "DerivingTimes"
    /\ LET heap == DeriveHeap(stops, 1, preds_by_stop, now)
           done == DeriveStops(stops, heap)
       IN  /\ preds_by_stop' = heap
           /\ stops' = done
           /\ Respond(200, [NoBody EXCEPT !.has_stops = TRUE,
                                          !.stops = ResponseStops(done, heap),
                                          !.has_origin = TRUE])
    /\ UNCHANGED <<ORS_API_KEY, args, lat, lon, radius, now, i, calls,
                   search_reply, pred_reply, ors_last, fp_in, fp_out>>

Next == Validate \/ FetchStops \/ WalkETA \/ RoutesForStop \/ FetchPredictions
        \/ DeriveTimes

Spec == Init /\ [][Next]_vars

-----------------------------------------------------------------------------
(* fetch_predictions called on its own (src/app.py 143-216) *)

\* Elements of data[] for the direct call: of a requested stop, of a stop
\* that was not requested ("C"), or without stop relationship ("")
FpRecords ==
    { RawPrediction(sid, rid, T1, NullTime) : sid \in StopIdSet, rid \in {"Red", "39"} }
    \cup { RawPrediction("C", "Red", T1, NullTime),
           RawPrediction("", "Red", NullTime, T2) }

FpReplies ==
    { [status |-> 0,   shape |-> "none", data |-> <<>>],
      [status |-> 429, shape |-> "none", data |-> <<>>],
      [status |-> 200, shape |-> "bad",  data |-> <<>>] }
    \cup { [status |-> 200, shape |-> "ok", data |-> d] :
             d \in SeqsUpTo(FpRecords, MaxFpData) }

InitFP ==
    /\ ORS_API_KEY = FALSE
    /\ args = [lat |-> ArgMissing, lon |-> ArgMissing, radius |-> ArgMissing]
    /\ pc = "Validating"
    /\ lat = 0 /\ lon = 0 /\ radius = 0 /\ now = 0
    /\ stops = <<>>
    /\ i = 0
    /\ preds_by_stop = <<>>
    /\ http_status = 0
    /\ body = NoBody
    /\ calls = <<>>
    /\ search_reply = NoReply
    /\ pred_reply = NoReply
    /\ ors_last = [idx |-> 0, outcome |-> "unset"]
    /\ fp_in \in [stop_ids : SeqsUpTo(StopIdSet, MaxFpIds),
                  limit : 0..MaxFpLimit,
                  data : {<<>>},
                  called : {FALSE}]
    /\ fp_out = [raised |-> FALSE, by_stop |-> <<>>]

\* one call fetch_predictions(stop_ids, limit_per_stop)
FpCall ==
    /\ ~fp_in.called
    /\ \E reply \in FpReplies :
        /\ fp_in' = [fp_in EXCEPT !.data = reply.data, !.called = TRUE]
        /\ fp_out' = fetch_predictions(fp_in.stop_ids, fp_in.limit, reply)
    /\ UNCHANGED main_vars

NextFP == FpCall

SpecFP == InitFP /\ [][NextFP]_vars

-----------------------------------------------------------------------------
(* Properties *)

SearchOk == search_reply.status = 200 /\ search_reply.shape = "ok"

Success == pc = "Done" /\ http_status = 200 /\ stops # <<>>

PredictionsFailed == pred_reply.status # -1 /\ PredictionsRaise(pred_reply)

DerivedFields(p) ==
    {p.departs_in_seconds, p.departs_in_minutes, p.leave_in_seconds,
     p.leave_in_minutes, p.catchable}

\* C1: a 429 from the stop search ends the request with status 429, an error
\* naming the rate limit and no stops field; every other 4xx/5xx answer of the
\* stop search ends it with the generic 502.
C1_RateLimited ==
    /\ search_reply.status = 429 =>
          /\ pc = "Done"
          /\ http_status = 429
          /\ body.error = "MBTA rate limit hit. Try again shortly."
          /\ ~body.has_stops
    /\ (search_reply.status >= 400 /\ search_reply.status # 429) =>
          (pc = "Done" /\ http_status = 502)

\* C2: once the stop search has returned a non-empty list, a finished request
\* has status 200 and carries every returned stop, whatever the other calls
\* answered and whatever fields (null ones too) the records carry.
C2_OnlyStopSearchFails ==
    (SearchOk /\ search_reply.data # <<>> /\ pc = "Done") =>
        /\ http_status = 200
        /\ body.has_stops
        /\ Len(body.stops) = Len(search_reply.data)

\* C3: every list fetch_predictions returns has at most limit_per_stop
\* entries and is the first (up to limit_per_stop) predictions of that stop
\* in the provider's order; every requested stop has a list.
C3_CapAndOrder ==
    (fp_in.called /\ ~fp_out.raised) =>
        /\ DOMAIN fp_out.by_stop = {fp_in.stop_ids[j] : j \in 1..Len(fp_in.stop_ids)}
        /\ \A sid \in DOMAIN fp_out.by_stop :
              LET Owns(p) == p.stop = sid
                  own == SelectSeq(fp_in.data, Owns)
                  n == Min(Len(own), fp_in.limit)
              IN  /\ Len(fp_out.by_stop[sid]) <= fp_in.limit
                  /\ fp_out.by_stop[sid] = [j \in 1..n |-> Pred(own[j])]

\* C3 witness: a stop with more predictions than the limit got exactly the
\* limit, and the limit is at least two (so order is observable).
C3_Witness ==
    /\ fp_in.called /\ ~fp_out.raised /\ fp_in.limit = 2
    /\ \E sid \in DOMAIN fp_out.by_stop :
          /\ Len(fp_out.by_stop[sid]) = 2
          /\ fp_out.by_stop[sid][1] # fp_out.by_stop[sid][2]
          /\ Cardinality({j \in 1..Len(fp_in.data) : fp_in.data[j].stop = sid}) = 3

\* C4: in a successful response the five derived fields of a prediction all
\* have a value (reference timestamp parsed) or none has one (timestamp
\* missing or not parseable); a key set to null counts as having no value.
C4_AllOrNothing ==
    Success =>
        \A k \in 1..Len(body.stops) :
            \A j \in 1..Len(body.stops[k].predictions) :
                LET p == body.stops[k].predictions[j]
                IN  IF DepStr(p).k = "aware"
                    THEN \A f \in DerivedFields(p) : HasValue(f)
                    ELSE \A f \in DerivedFields(p) : ~HasValue(f)

\* C4 witness: a response holding a prediction whose timestamp did not parse
C4_Witness ==
    /\ Success
    /\ \E k \in 1..Len(body.stops) :
          \E j \in 1..Len(body.stops[k].predictions) :
              /\ ParseRaises(DepStr(body.stops[k].predictions[j]))
              /\ body.stops[k].predictions[j].catchable = Null

\* C5: in a successful response, a prediction with a parseable reference
\* instant T listed under a stop with walk_seconds W has
\* departs_in_seconds = round(T - now) and catchable = (T - now - W > 0).
C5_LeaveBy ==
    Success =>
        \A k \in 1..Len(body.stops) :
            \A j \in 1..Len(body.stops[k].predictions) :
                LET p == body.stops[k].predictions[j]
                    t == Instant(DepStr(p))
                    w == body.stops[k].walk_seconds[1]
                IN  DepStr(p).k = "aware" =>
                        /\ p.departs_in_seconds = Val(RoundDiv(t - now, 10))
                        /\ p.catchable = Val(IF t - now - 10 * w > 0 THEN 1 ELSE 0)

\* C6: when the predictions call fails outright, the stop list is left as it
\* was, the request ends with status 200, and each stop of the response is
\* the stop as enriched before, with an empty predictions list and
\* has_predictions false.
C6_PredictionsBestEffort ==
    [][ /\ (pc = "FetchingPredictions" /\ pc' # pc /\ PredictionsRaise(pred_reply')) =>
              /\ stops' = stops
              /\ pc' = "DerivingTimes"
              /\ http_status' = 0
        /\ (pc = "DerivingTimes" /\ pc' # pc /\ PredictionsFailed) =>
              /\ pc' = "Done"
              /\ http_status' = 200
              /\ body'.has_stops
              /\ Len(body'.stops) = Len(stops)
              /\ \A k \in 1..Len(stops) :
                    body'.stops[k] = [stops[k] EXCEPT !.predictions = <<>>,
                                                      !.has_predictions = Some(FALSE)]
      ]_vars

\* C6 witness: a finished request whose predictions call failed, with a stop
\* that has routes and a live walking ETA
C6_Witness ==
    /\ Success /\ PredictionsFailed
    /\ \E k \in 1..Len(body.stops) :
          /\ body.stops[k].routes # <<>>
          /\ body.stops[k].walk_method = "openrouteservice"
          /\ body.stops[k].has_predictions = Some(FALSE)

\* C7: a stop search that succeeds with zero stops ends the request at once
\* with status 200, stops = [] and an advisory message; the stop search is
\* the only upstream call of that request.
C7_EmptyIsTerminal ==
    (SearchOk /\ search_reply.data = <<>>) =>
        /\ pc = "Done"
        /\ http_status = 200
        /\ body.has_stops /\ body.stops = <<>>
        /\ body.message # ""
        /\ calls = <<Call("stops", 0, <<>>)>>

C7_Witness == SearchOk /\ search_reply.data = <<>> /\ pc = "Done"

\* C8: a request with lat or lon missing or non-numeric ends with 400 and
\* issues no upstream call; a finished request has status 400, 429, 502 or 200.
C8_Outcomes ==
    /\ (args.lat.k # "num" \/ args.lon.k # "num") =>
          /\ calls = <<>>
          /\ pc = "Done" => http_status = 400
    /\ pc = "Done" => http_status \in {400, 429, 502, 200}

\* C9: when the directions provider has no credential, is unreachable or
\* times out, answers non-200 or a malformed 200, the stop gets
\* walk_method "estimate"; an estimate is round(distance / 1.4) of the
\* unrounded haversine distance; walk_eta_ors never ends the request.
C9_WalkEtaDegrades ==
    /\ ors_last.outcome \in {"nokey", "error", "non200", "malformed"} =>
          stops[ors_last.idx].walk_method = "estimate"
    /\ \A k \in 1..Len(stops) :
          stops[k].walk_method = "estimate" =>
              stops[k].walk_seconds =
                  Some(RoundDiv(haversine_m(lat, lon, stops[k].lat, stops[k].lon).dm, 14))
    /\ body.error # "Exception: walk_eta_ors"

\* C9 witness: a finished request in which the last directions request got
\* a malformed 200 and the stop shows an estimate that differs from the one
\* the rounded distance would give
C9_Witness ==
    /\ Success
    /\ ors_last.outcome = "malformed"
    /\ body.stops[ors_last.idx].walk_method = "estimate"
    /\ body.stops[ors_last.idx].walk_seconds
         # Some(RoundDiv(10 * body.stops[ors_last.idx].distance_m[1], 14))

Rank(api) ==
    CASE api = "stops" -> 1
      [] api = "directions" -> 2
      [] api = "routes" -> 3
      [] api = "predictions" -> 4

CallsOf(api) == {n \in 1..Len(calls) : calls[n].api = api}

\* C10: the upstream calls come in the order stop search, directions,
\* routes, predictions; no request is issued twice (at most one stop search,
\* one directions and one routes call per stop, one predictions call); and a
\* request that got past the predictions step issued exactly one routes call
\* per stop and exactly one predictions call, for all the stop ids.
C10_CallOrder ==
    /\ \A a, b \in 1..Len(calls) :
          a < b => /\ Rank(calls[a].api) <= Rank(calls[b].api)
                   /\ calls[a].api = calls[b].api => calls[a].idx < calls[b].idx
    /\ IF search_reply = NoReply THEN calls = <<>> ELSE CallsOf("stops") = {1}
    /\ pc \in {"Validating", "FetchingStops"} => search_reply = NoReply
    /\ pc = "WalkETAs" => CallsOf("routes") = {} /\ CallsOf("predictions") = {}
    /\ pc = "Routes" => CallsOf("predictions") = {}
    /\ (pc = "DerivingTimes" \/ Success) =>
          /\ {calls[n].idx : n \in CallsOf("routes")} = 1..Len(stops)
          /\ {calls[n].idx : n \in CallsOf("directions")} \subseteq 1..Len(stops)
          /\ Cardinality(CallsOf("predictions")) = 1
          /\ \A n \in CallsOf("predictions") : calls[n].ids = StopIds(stops)

\* C10 witness: a finished request over two stops with all six calls
C10_Witness ==
    /\ Success /\ Len(stops) = 2 /\ Len(calls) = 6
    /\ calls[6] = Call("predictions", 0, StopIds(stops))

====
